---- MODULE Spec2Model ----
(***************************************************************************)
(* The interaction-logging server of server.js: POST /log normalises a     *)
(* JSON payload and inserts one row into student_interactions; GET /csv,   *)
(* GET /csv/download, GET /stats, GET /status, GET /health,                *)
(* GET /student/:name and GET /class/:className read the table.            *)
(*                                                                         *)
(* JavaScript strings are TLA+ strings, read with Len, SubSeq and \o.       *)
(***************************************************************************)
EXTENDS Integers, Sequences, FiniteSets, TLC

VARIABLES store, req, checkedOut, escIn, escOut

vars == <<store, req, checkedOut, escIn, escOut>>

-----------------------------------------------------------------------------
(* Bounds of the model. *)

MaxSlots == 2
MaxRows == 2
PoolMax == 2
MaxStrLen == 3

-----------------------------------------------------------------------------
(* JavaScript values. *)

Undefined == [t |-> "undefined", s |-> "", n |-> 0, a |-> <<>>]
Null == [t |-> "null", s |-> "", n |-> 0, a |-> <<>>]
Str(s) == [t |-> "string", s |-> s, n |-> 0, a |-> <<>>]
Num(n) == [t |-> "number", s |-> "", n |-> n, a |-> <<>>]
Arr(a) == [t |-> "array", s |-> "", n |-> 0, a |-> a]
Date(n) == [t |-> "date", s |-> "", n |-> n, a |-> <<>>]

\* ToBoolean: undefined, null, '' and 0 are falsy.
Truthy(v) ==
  CASE v.t = "undefined" -> FALSE
    [] v.t = "null" -> FALSE
    [] v.t = "string" -> v.s # ""
    [] v.t = "number" -> v.n # 0
    [] OTHER -> TRUE

\* a || b
Or(a, b) == IF Truthy(a) THEN a ELSE b

\* An object that may be absent (payload.student, payload.analysis).
NoStudent == [defined |-> FALSE, name |-> Undefined, class |-> Undefined]
Student(name, class) == [defined |-> TRUE, name |-> name, class |-> class]
NoAnalysis ==
  [defined |-> FALSE, riskLevel |-> Undefined, flags |-> Undefined,
   wordCount |-> Undefined]
Analysis(riskLevel, flags, wordCount) ==
  [defined |-> TRUE, riskLevel |-> riskLevel, flags |-> flags,
   wordCount |-> wordCount]

\* o?.f
Opt(o, f) == IF o.defined THEN o[f] ELSE Undefined

Digits == <<"0", "1", "2", "3", "4", "5", "6", "7", "8", "9">>

RECURSIVE NatText(_)
NatText(n) ==
  IF n < 10 THEN Digits[n + 1] ELSE NatText(n \div 10) \o Digits[(n % 10) + 1]

CharAt(str, i) == SubSeq(str, i, i)

RECURSIVE Join(_, _)
Join(parts, sep) ==
  IF parts = <<>> THEN ""
  ELSE IF Len(parts) = 1 THEN parts[1]
  ELSE parts[1] \o sep \o Join(Tail(parts), sep)

\* The instants the timestamp column holds in this model, the ISO text a
\* client sends for each, and the text String(date) gives for each.
IsoText == <<"2024-01-01T00:00:00Z", "2024-01-02T00:00:00Z">>
DateText ==
  <<"Mon Jan 01 2024 00:00:00 GMT+0000 (Coordinated Universal Time)",
    "Tue Jan 02 2024 00:00:00 GMT+0000 (Coordinated Universal Time)">>

\* String(value)
StringOf(v) ==
  CASE v.t = "string" -> v.s
    [] v.t = "number" -> NatText(v.n)
    [] v.t = "date" -> DateText[v.n]
    [] v.t = "array" -> Join(v.a, ",")
    [] v.t = "null" -> "null"
    [] OTHER -> "undefined"

\* str.includes(c), c one character
Includes(str, c) == \E i \in 1..Len(str) : CharAt(str, i) = c

\* str.replace(/"/g, '""')
RECURSIVE DoubleQuotes(_)
DoubleQuotes(str) ==
  IF Len(str) = 0 THEN ""
  ELSE IF Len(str) = 1 THEN (IF str = "\"" THEN "\"\"" ELSE str)
  ELSE LET h == Len(str) \div 2
       IN DoubleQuotes(SubSeq(str, 1, h)) \o DoubleQuotes(SubSeq(str, h + 1, Len(str)))

\* The condition without the carriage return.
NeedsQuotesNoCR(str) ==
  Includes(str, ",") \/ Includes(str, "\"") \/ Includes(str, "\n")

\* str.includes(',') || str.includes('"') || str.includes('\n') ||
\* str.includes('\r')
NeedsQuotes(str) ==
  Includes(str, ",") \/ Includes(str, "\"") \/ Includes(str, "\n")
    \/ Includes(str, "\r")

escapeCSV(value) ==
  IF value.t = "null" \/ value.t = "undefined" THEN ""
  ELSE LET str == StringOf(value)
       IN IF NeedsQuotes(str) THEN "\"" \o DoubleQuotes(str) \o "\"" ELSE str

-----------------------------------------------------------------------------
(* The payload of POST /log and the parameters of the INSERT. *)

RECURSIVE Rep(_, _)
Rep(s, n) ==
  IF n = 0 THEN ""
  ELSE IF n = 1 THEN s
  ELSE Rep(s, n \div 2) \o Rep(s, n - (n \div 2))

\* str.substring(0, n)
Substring(str, n) == SubSeq(str, 1, IF Len(str) < n THEN Len(str) ELSE n)

\* A response of 501 characters: 200 without a comma, a comma at 201.
LongResponse == Rep("x", 200) \o "," \o Rep("y", 299) \o "!"

NoPayload ==
  [sessionId |-> Undefined, timestamp |-> Undefined, student |-> NoStudent,
   questionNumber |-> Undefined, type |-> Undefined, question |-> Undefined,
   response |-> Undefined, category |-> Undefined, analysis |-> NoAnalysis]

\* The scenario of the documentation: only sessionId, timestamp, type, category.
Minimal ==
  [NoPayload EXCEPT !.sessionId = Str("s1"), !.timestamp = Str(IsoText[2]),
                    !.type = Str("question"), !.category = Str("algebra")]

\* Every field supplied; same session and same instant as Minimal.
Full ==
  [sessionId |-> Str("s1"), timestamp |-> Str(IsoText[2]),
   student |-> Student(Str("Ann"), Str("7A")), questionNumber |-> Num(1),
   type |-> Str("response"), question |-> Str("What is 2+2, please?"),
   response |-> Str(LongResponse), category |-> Str("math, science"),
   analysis |-> Analysis(Str("low"), Arr(<<"off-topic", "short">>), Num(5))]

\* An earlier instant than the others, zero numbers, an empty flag list.
Zeroes ==
  [sessionId |-> Str("s2"), timestamp |-> Str(IsoText[1]),
   student |-> Student(Str("Bob"), Undefined), questionNumber |-> Num(0),
   type |-> Str("question"), question |-> Str("He said \"hi\"\nbye"),
   response |-> Str(""), category |-> Str("__proto__"),
   analysis |-> Analysis(Undefined, Arr(<<>>), Num(0))]

NoType == [Minimal EXCEPT !.type = Undefined]
BadTime == [Minimal EXCEPT !.timestamp = Str("soon")]
NoSession == [Minimal EXCEPT !.sessionId = Undefined]
EmptySession == [Full EXCEPT !.sessionId = Str("")]
NoTimestamp == [Full EXCEPT !.timestamp = Undefined]
EmptyTimestamp == [Minimal EXCEPT !.timestamp = Str("")]

Payloads ==
  {Minimal, Full, Zeroes, NoType, BadTime, NoSession, EmptySession,
   NoTimestamp, EmptyTimestamp}

\* A validation that forgets the timestamp.
ValidSessionOnly(p) == Truthy(p.sessionId)

\* if (!logEntry.sessionId || !logEntry.timestamp) return 400
Valid(p) == Truthy(p.sessionId) /\ Truthy(p.timestamp)

\* JSON.stringify of a string
RECURSIVE JsonEscape(_)
JsonEscape(str) ==
  IF Len(str) = 0 THEN ""
  ELSE IF Len(str) = 1
  THEN (CASE str = "\"" -> "\\\""
          [] str = "\\" -> "\\\\"
          [] str = "\n" -> "\\n"
          [] str = "\r" -> "\\r"
          [] OTHER -> str)
  ELSE LET h == Len(str) \div 2
       IN JsonEscape(SubSeq(str, 1, h)) \o JsonEscape(SubSeq(str, h + 1, Len(str)))

JsonString(str) == "\"" \o JsonEscape(str) \o "\""

JsonValue(v) ==
  CASE v.t = "string" -> JsonString(v.s)
    [] v.t = "number" -> NatText(v.n)
    [] v.t = "array" ->
         "[" \o Join([k \in 1..Len(v.a) |-> JsonString(v.a[k])], ",") \o "]"
    [] OTHER -> "null"

RECURSIVE JsonMembers(_, _)
JsonMembers(o, keys) ==
  IF keys = <<>> THEN <<>>
  ELSE (IF o[Head(keys)].t = "undefined" THEN <<>>
        ELSE <<JsonString(Head(keys)) \o ":" \o JsonValue(o[Head(keys)])>>)
       \o JsonMembers(o, Tail(keys))

\* JSON.stringify of an analysis object whose keys come in the order `keys`;
\* a member that is undefined is left out.
Stringify(o, keys) == "{" \o Join(JsonMembers(o, keys), ",") \o "}"

EmptyObject == Analysis(Undefined, Undefined, Undefined)

\* The order of the keys in the payload, and the order jsonb keeps them in.
PayloadKeys == <<"riskLevel", "flags", "wordCount">>
JsonbKeys == <<"flags", "riskLevel", "wordCount">>

\* const values = [...]: the parameters of the INSERT; a || b is b for every
\* falsy a.
Values(p) ==
  [timestamp |-> p.timestamp,
   session_id |-> p.sessionId,
   student_name |-> Or(Opt(p.student, "name"), Str("Anonymous")),
   class_name |-> Or(Opt(p.student, "class"), Str("Not specified")),
   question_number |-> Or(p.questionNumber, Null),
   interaction_type |-> p.type,
   question |-> Or(p.question, Str("")),
   ai_response |-> Or(p.response, Str("")),
   category |-> Or(p.category, Str("")),
   risk_level |-> Or(Opt(p.analysis, "riskLevel"), Str("")),
   flags |-> Or(Opt(p.analysis, "flags"), Arr(<<>>)),
   word_count |-> Or(Opt(p.analysis, "wordCount"), Null),
   analysis_details |->
     Str(Stringify(IF p.analysis.defined THEN p.analysis ELSE EmptyObject,
                   PayloadKeys))]

-----------------------------------------------------------------------------
(* The table student_interactions. *)

\* A parameter as the driver sends it: undefined goes as NULL.
ToSql(v) == IF v.t = "undefined" THEN Null ELSE v

\* The instant a TIMESTAMPTZ input names, 0 when it names none.
ParseTimestamp(v) ==
  IF v.t = "string" /\ \E k \in 1..Len(IsoText) : IsoText[k] = v.s
  THEN CHOOSE k \in 1..Len(IsoText) : IsoText[k] = v.s
  ELSE 0

\* The jsonb value of a JSON text.
Blobs == {EmptyObject} \cup {p.analysis : p \in {q \in Payloads : q.analysis.defined}}
ParseJsonb(text) == CHOOSE o \in Blobs : Stringify(o, PayloadKeys) = text

\* The INSERT is rejected: a NOT NULL column gets NULL, or the timestamp
\* does not parse.
InsertRejected(v) ==
  \/ ToSql(v.timestamp).t = "null"
  \/ ParseTimestamp(v.timestamp) = 0
  \/ ToSql(v.session_id).t = "null"
  \/ ToSql(v.interaction_type).t = "null"

NewRow(v, id) ==
  [id |-> id,
   timestamp |-> Date(ParseTimestamp(v.timestamp)),
   session_id |-> ToSql(v.session_id),
   student_name |-> ToSql(v.student_name),
   class_name |-> ToSql(v.class_name),
   question_number |-> ToSql(v.question_number),
   interaction_type |-> ToSql(v.interaction_type),
   question |-> ToSql(v.question),
   ai_response |-> ToSql(v.ai_response),
   category |-> ToSql(v.category),
   risk_level |-> ToSql(v.risk_level),
   flags |-> ToSql(v.flags),
   word_count |-> ToSql(v.word_count),
   analysis_details |-> ParseJsonb(v.analysis_details.s)]

Injections(n) == {f \in [1..n -> 1..n] : \A a, b \in 1..n : f[a] = f[b] => a = b}

\* ORDER BY timestamp DESC.
OrderByTimestampDesc(rows) ==
  {[k \in 1..Len(rows) |-> rows[f[k]]] : f \in
     {g \in Injections(Len(rows)) : \A a, b \in 1..Len(rows) :
        a < b => rows[g[a]].timestamp.n >= rows[g[b]].timestamp.n}}

\* ORDER BY timestamp ASC: every order of the rows in which the timestamps
\* ascend; rows with equal timestamps come in any order.
OrderByTimestamp(rows) ==
  {[k \in 1..Len(rows) |-> rows[f[k]]] : f \in
     {g \in Injections(Len(rows)) : \A a, b \in 1..Len(rows) :
        a < b => rows[g[a]].timestamp.n <= rows[g[b]].timestamp.n}}

RECURSIVE Where(_, _, _)
Where(rows, column, value) ==
  IF rows = <<>> THEN <<>>
  ELSE (IF Head(rows)[column] = value THEN <<Head(rows)>> ELSE <<>>)
       \o Where(Tail(rows), column, value)

Range(f) == {f[x] : x \in DOMAIN f}

\* SELECT COUNT(*)
CountAll(rows) == Len(rows)

\* SELECT COUNT(DISTINCT session_id)
CountSessions(rows) == Cardinality({r.session_id : r \in Range(rows)})

\* SELECT COUNT(DISTINCT student_name) ... WHERE student_name != 'Anonymous'
CountStudents(rows) ==
  Cardinality({r.student_name : r \in
     {q \in Range(rows) : q.student_name.t # "null" /\ q.student_name # Str("Anonymous")}})

\* SELECT category, COUNT(*) ... WHERE category IS NOT NULL AND category != ''
\* GROUP BY category: the set of the result's rows.
GroupByCategory(rows) ==
  LET kept == {r \in Range(rows) : r.category.t # "null" /\ r.category # Str("")}
  IN {[category |-> c, count |-> Cardinality({r \in kept : r.category.s = c})] :
        c \in {r.category.s : r \in kept}}

-----------------------------------------------------------------------------
(* The export and the statistics, as the handlers build them. *)

Headers ==
  <<"Timestamp", "Session_ID", "Student_Name", "Class", "Question_Number",
    "Interaction_Type", "Question", "AI_Response_Preview", "Category",
    "Risk_Level", "Flags", "Word_Count", "Analysis_Details">>

\* One csvRow: the thirteen escaped fields; `preview` is 200 for /csv and
\* 500 for /csv/download.
CsvRow(row, preview) ==
  <<escapeCSV(row.timestamp),
    escapeCSV(row.session_id),
    escapeCSV(row.student_name),
    escapeCSV(row.class_name),
    escapeCSV(row.question_number),
    escapeCSV(row.interaction_type),
    escapeCSV(row.question),
    escapeCSV(IF Truthy(row.ai_response)
              THEN Str(Substring(row.ai_response.s, preview)) ELSE Str("")),
    escapeCSV(row.category),
    escapeCSV(row.risk_level),
    escapeCSV(IF Truthy(row.flags) THEN Str(Join(row.flags.a, "; ")) ELSE Str("")),
    escapeCSV(row.word_count),
    escapeCSV(Str(Stringify(row.analysis_details, JsonbKeys)))>>

\* csvContent as the sequence of its lines, each ended by '\n' in the body.
CsvContent(rows, preview) ==
  <<Join(Headers, ",")>> \o [k \in 1..Len(rows) |-> Join(CsvRow(rows[k], preview), ",")]

PreviewLength(kind) == IF kind = "csv" THEN 200 ELSE 500

\* categories[row.category] = parseInt(row.count) on a plain object: the
\* key __proto__ names the prototype accessor, and assigning a number to it
\* leaves the object as it was.
AssignProperty(obj, key, value) ==
  IF key = "__proto__" THEN obj
  ELSE [k \in DOMAIN obj \cup {key} |-> IF k = key THEN value ELSE obj[k]]

RECURSIVE AssignAll(_, _)
AssignAll(obj, groups) ==
  IF groups = {} THEN obj
  ELSE LET g == CHOOSE x \in groups : TRUE
       IN AssignAll(AssignProperty(obj, g.category, g.count), groups \ {g})

EmptyMap == [k \in {} |-> 0]

-----------------------------------------------------------------------------
(* Requests.  A slot holds one request from its arrival to the moment its  *)
(* response has been handed over; pc is the await the handler is at.       *)

Slots == 1..MaxSlots

NotCalled == "(not called)"

GetKinds == {"status", "csv", "csvDownload", "stats", "health"}
NamedKinds == {"student", "class"}
Names == [student |-> "Ann", class |-> "7A"]

NoBody ==
  [tag |-> "none", text |-> "", n |-> 0, lines |-> <<>>, sessions |-> 0,
   students |-> 0, categories |-> EmptyMap, rows |-> <<>>]

ErrorBody(message) == [NoBody EXCEPT !.tag = "error", !.text = message]

IdleReq ==
  [pc |-> "idle", kind |-> "none", payload |-> NoPayload, param |-> "",
   holding |-> FALSE, err |-> "none", total |-> 0, sessions |-> 0,
   students |-> 0, sent |-> 0, status |-> 0, body |-> NoBody]

\* res.status(status).json(body) or res.send(body), the handler's last step.
Respond(r, status, body) ==
  [r EXCEPT !.pc = "done", !.sent = @ + 1, !.status = status, !.body = body]

CatchMessage(kind) ==
  CASE kind = "log" -> "Failed to log interaction"
    [] kind = "csv" -> "Failed to generate CSV"
    [] kind = "csvDownload" -> "Failed to download CSV file"
    [] kind = "stats" -> "Failed to get statistics"
    [] kind = "student" -> "Failed to get student data"
    [] kind = "class" -> "Failed to get class data"
    [] OTHER -> "Database connection failed"

\* A handler that swallows the error and answers as if nothing had failed.
CatchSwallowed(r, e) ==
  Respond([r EXCEPT !.err = e], 200, [NoBody EXCEPT !.tag = "ok"])

\* The catch block of a handler: the await threw e.  The client the handler
\* holds, if any, stays checked out.
Catch(r, e) == Respond([r EXCEPT !.err = e], 500, ErrorBody(CatchMessage(r.kind)))

\* client.release()
Released(r) == [r EXCEPT !.holding = FALSE]

FirstQuery(kind) ==
  CASE kind = "log" -> "insert"
    [] kind = "stats" -> "countAll"
    [] OTHER -> "select"

Init ==
  /\ store = <<>>
  /\ req = [i \in Slots |-> IdleReq]
  /\ checkedOut = 0
  /\ escIn = Undefined
  /\ escOut = NotCalled

\* A request arrives; the lowest free slot takes it.
FreeSlot(i) == req[i].pc = "idle" /\ \A j \in 1..(i - 1) : req[j].pc # "idle"

ReceiveLog(i, p) ==
  /\ FreeSlot(i)
  /\ LET r == [IdleReq EXCEPT !.kind = "log", !.payload = p]
     IN req' = [req EXCEPT ![i] =
                  IF ~Valid(p) THEN Respond(r, 400, ErrorBody("Missing required fields"))
                  ELSE [r EXCEPT !.pc = "connect"]]
  /\ UNCHANGED <<store, checkedOut, escIn, escOut>>

ReceiveGet(i, kind) ==
  /\ FreeSlot(i)
  /\ req' = [req EXCEPT ![i] = [IdleReq EXCEPT !.kind = kind, !.pc = "connect"]]
  /\ UNCHANGED <<store, checkedOut, escIn, escOut>>

ReceiveNamed(i, kind) ==
  /\ FreeSlot(i)
  /\ req' = [req EXCEPT ![i] =
               [IdleReq EXCEPT !.kind = kind, !.param = Names[kind], !.pc = "connect"]]
  /\ UNCHANGED <<store, checkedOut, escIn, escOut>>

\* await pool.connect(): a client is handed out while the pool has one, or
\* the connection fails.
Connect(i) ==
  /\ req[i].pc = "connect"
  /\ \/ /\ checkedOut < PoolMax
        /\ checkedOut' = checkedOut + 1
        /\ req' = [req EXCEPT ![i].pc = FirstQuery(req[i].kind), ![i].holding = TRUE]
     \/ /\ req' = [req EXCEPT ![i] = Catch(req[i], "connect")]
        /\ UNCHANGED checkedOut
  /\ UNCHANGED <<store, escIn, escOut>>

\* await client.query(INSERT ...), then release and acknowledge.
LogInsert(i) ==
  /\ req[i].pc = "insert"
  /\ LET v == Values(req[i].payload)
     IN \/ /\ ~InsertRejected(v)
           /\ Len(store) < MaxRows
           /\ store' = Append(store, NewRow(v, Len(store) + 1))
           /\ checkedOut' = checkedOut - 1
           /\ req' = [req EXCEPT ![i] =
                        Respond(Released(req[i]), 200,
                                [NoBody EXCEPT !.tag = "logged", !.n = Len(store) + 1])]
        \/ /\ InsertRejected(v)
           /\ req' = [req EXCEPT ![i] = Catch(req[i], "rejected")]
           /\ UNCHANGED <<store, checkedOut>>
        \/ /\ req' = [req EXCEPT ![i] = Catch(req[i], "storage")]
           /\ UNCHANGED <<store, checkedOut>>
  /\ UNCHANGED <<escIn, escOut>>

\* GET /csv and GET /csv/download: one SELECT, then release and send.
CsvSelect(i) ==
  /\ req[i].pc = "select"
  /\ req[i].kind \in {"csv", "csvDownload"}
  /\ \/ /\ \E rows \in OrderByTimestamp(store) :
             req' = [req EXCEPT ![i] =
                       Respond(Released(req[i]), 200,
                               [NoBody EXCEPT !.tag = "csv", !.lines =
                                  CsvContent(rows, PreviewLength(req[i].kind))])]
        /\ checkedOut' = checkedOut - 1
     \/ /\ req' = [req EXCEPT ![i] = Catch(req[i], "storage")]
        /\ UNCHANGED checkedOut
  /\ UNCHANGED <<store, escIn, escOut>>

\* GET /stats: four queries on one client, each a statement of its own.
StatsCountAll(i) ==
  /\ req[i].pc = "countAll"
  /\ \/ req' = [req EXCEPT ![i].total = CountAll(store), ![i].pc = "countSessions"]
     \/ req' = [req EXCEPT ![i] = Catch(req[i], "storage")]
  /\ UNCHANGED <<store, checkedOut, escIn, escOut>>

StatsCountSessions(i) ==
  /\ req[i].pc = "countSessions"
  /\ \/ req' = [req EXCEPT ![i].sessions = CountSessions(store),
                           ![i].pc = "countStudents"]
     \/ req' = [req EXCEPT ![i] = Catch(req[i], "storage")]
  /\ UNCHANGED <<store, checkedOut, escIn, escOut>>

StatsCountStudents(i) ==
  /\ req[i].pc = "countStudents"
  /\ \/ req' = [req EXCEPT ![i].students = CountStudents(store),
                           ![i].pc = "groupCategories"]
     \/ req' = [req EXCEPT ![i] = Catch(req[i], "storage")]
  /\ UNCHANGED <<store, checkedOut, escIn, escOut>>

StatsGroupCategories(i) ==
  /\ req[i].pc = "groupCategories"
  /\ \/ /\ req' = [req EXCEPT ![i] =
                     Respond(Released(req[i]), 200,
                             [NoBody EXCEPT !.tag = "stats",
                                            !.n = req[i].total,
                                            !.sessions = req[i].sessions,
                                            !.students = req[i].students,
                                            !.categories =
                                              AssignAll(EmptyMap, GroupByCategory(store))])]
        /\ checkedOut' = checkedOut - 1
     \/ /\ req' = [req EXCEPT ![i] = Catch(req[i], "storage")]
        /\ UNCHANGED checkedOut
  /\ UNCHANGED <<store, escIn, escOut>>

\* GET /status (SELECT COUNT(*)) and GET /health (SELECT 1).
StatusSelect(i) ==
  /\ req[i].pc = "select"
  /\ req[i].kind \in {"status", "health"}
  /\ \/ /\ req' = [req EXCEPT ![i] =
                     Respond(Released(req[i]), 200,
                             [NoBody EXCEPT !.tag = req[i].kind, !.n =
                                IF req[i].kind = "status" THEN CountAll(store) ELSE 0])]
        /\ checkedOut' = checkedOut - 1
     \/ /\ req' = [req EXCEPT ![i] = Catch(req[i], "storage")]
        /\ UNCHANGED checkedOut
  /\ UNCHANGED <<store, escIn, escOut>>

\* GET /student/:name and GET /class/:className.
NamedSelect(i) ==
  /\ req[i].pc = "select"
  /\ req[i].kind \in NamedKinds
  /\ \/ /\ \E rows \in OrderByTimestamp(
               Where(store, IF req[i].kind = "student" THEN "student_name"
                            ELSE "class_name", Str(req[i].param))) :
             req' = [req EXCEPT ![i] =
                       Respond(Released(req[i]), 200,
                               [NoBody EXCEPT !.tag = "rows", !.text = req[i].param,
                                              !.n = Len(rows), !.rows = rows])]
        /\ checkedOut' = checkedOut - 1
     \/ /\ req' = [req EXCEPT ![i] = Catch(req[i], "storage")]
        /\ UNCHANGED checkedOut
  /\ UNCHANGED <<store, escIn, escOut>>

\* The response has been delivered; the slot is free for the next request.
Finish(i) ==
  /\ req[i].pc = "done"
  /\ req' = [req EXCEPT ![i] = IdleReq]
  /\ UNCHANGED <<store, checkedOut, escIn, escOut>>

Next ==
  \E i \in Slots :
    \/ \E p \in Payloads : ReceiveLog(i, p)
    \/ \E kind \in GetKinds : ReceiveGet(i, kind)
    \/ \E kind \in NamedKinds : ReceiveNamed(i, kind)
    \/ Connect(i)
    \/ LogInsert(i)
    \/ CsvSelect(i)
    \/ StatsCountAll(i)
    \/ StatsCountSessions(i)
    \/ StatsCountStudents(i)
    \/ StatsGroupCategories(i)
    \/ StatusSelect(i)
    \/ NamedSelect(i)
    \/ Finish(i)

Spec == Init /\ [][Next]_vars

-----------------------------------------------------------------------------
(* escapeCSV on its own: the input is drawn from the strings of at most    *)
(* MaxStrLen characters over Alphabet and the other values a field holds.  *)

Alphabet == {"a", " ", ",", "\"", "\n", "\r"}

RECURSIVE Concat(_)
Concat(chars) == IF chars = <<>> THEN "" ELSE Head(chars) \o Concat(Tail(chars))

Strings == {Concat(cs) : cs \in UNION {[1..k -> Alphabet] : k \in 0..MaxStrLen}}

EscInputs ==
  {Undefined, Null} \cup {Str(s) : s \in Strings} \cup {Num(n) : n \in {0, 7, 12}}
    \cup {Date(1)} \cup {Arr(<<>>), Arr(<<"a", "a">>)}

InitEscape ==
  /\ store = <<>>
  /\ req = [i \in Slots |-> IdleReq]
  /\ checkedOut = 0
  /\ escIn \in EscInputs
  /\ escOut = NotCalled

CallEscape ==
  /\ escOut = NotCalled
  /\ escOut' = escapeCSV(escIn)
  /\ UNCHANGED <<store, req, checkedOut, escIn>>

NextEscape == CallEscape

SpecEscape == InitEscape /\ [][NextEscape]_vars

-----------------------------------------------------------------------------
(* Properties. *)

IsLog(r) == r.kind = "log"
Answered(r) == r.pc = "done"
Succeeded(r) == r.pc = "done" /\ r.err = "none" /\ r.status = 200
Absent(v) == v.t \in {"undefined", "null"}
MissingOrEmpty(v) == Absent(v) \/ (v.t = "string" /\ v.s = "")
Prefix(k) == SubSeq(store, 1, k)
HeaderLine ==
  "Timestamp,Session_ID,Student_Name,Class,Question_Number,Interaction_Type,"
    \o "Question,AI_Response_Preview,Category,Risk_Level,Flags,Word_Count,"
    \o "Analysis_Details"

\* C1: a payload with sessionId and timestamp present, whatever its other
\* fields, is answered with success unless the storage failed, its row is
\* in the table, and every export that read the table from then on holds
\* its line and every count taken from then on includes it.
C1_PresentIsLogged ==
  \A i \in Slots :
    LET r == req[i]
    IN (IsLog(r) /\ Answered(r) /\ ~MissingOrEmpty(r.payload.sessionId)
          /\ ~MissingOrEmpty(r.payload.timestamp)
          /\ r.err \notin {"connect", "storage"})
       => /\ r.status = 200
          /\ r.body.tag = "logged"
          /\ r.body.n \in 1..Len(store)
          /\ store[r.body.n].session_id = r.payload.sessionId
          /\ \A j \in Slots :
               /\ (Succeeded(req[j]) /\ req[j].body.tag = "csv"
                     /\ Len(req[j].body.lines) > r.body.n)
                  => \E k \in 2..Len(req[j].body.lines) :
                       req[j].body.lines[k] =
                         Join(CsvRow(store[r.body.n], PreviewLength(req[j].kind)), ",")
               /\ (Succeeded(req[j]) /\ req[j].body.tag = "stats"
                     /\ req[j].body.n = Len(store))
                  => req[j].body.n >= r.body.n

\* The state half of C2: such a request is answered 400 and holds no client,
\* and every stored row has a non-empty session_id and a timestamp.
C2_RejectedState ==
  /\ \A i \in Slots :
       LET r == req[i]
       IN (IsLog(r) /\ (MissingOrEmpty(r.payload.sessionId)
                          \/ MissingOrEmpty(r.payload.timestamp)))
          => /\ r.pc = "done"
             /\ r.status = 400
             /\ r.sent = 1
             /\ r.body.tag = "error"
             /\ ~r.holding
  /\ \A k \in 1..Len(store) :
       /\ store[k].session_id.t = "string"
       /\ store[k].session_id.s # ""
       /\ store[k].timestamp.t = "date"
       /\ store[k].timestamp.n \in 1..Len(IsoText)

\* The step half of C2: receiving such a request changes neither the table
\* nor the pool.
C2_RejectedStep ==
  \A i \in Slots :
    (req[i].pc = "idle" /\ IsLog(req'[i])
       /\ (MissingOrEmpty(req'[i].payload.sessionId)
             \/ MissingOrEmpty(req'[i].payload.timestamp)))
    => store' = store /\ checkedOut' = checkedOut

\* C2: a POST /log whose sessionId or timestamp is missing or empty is
\* answered 400 and leaves the table unchanged, so every stored row has a
\* non-empty session_id and a timestamp.
C2_MissingRequiredRejected == [](C2_RejectedState) /\ [][C2_RejectedStep]_vars

\* C2's case: a row is stored and a request with an empty timestamp got 400.
C2_Witness ==
  /\ Len(store) >= 1
  /\ \E i \in Slots :
       /\ IsLog(req[i])
       /\ req[i].payload.timestamp = Str("")
       /\ req[i].status = 400

\* lines is the header line followed by one line per row of rows, each row
\* once, with the timestamps ascending.
C3_Export(lines, rows, preview) ==
  /\ Len(lines) = Len(rows) + 1
  /\ lines[1] = HeaderLine
  /\ \E f \in [1..Len(rows) -> 1..Len(rows)] :
       /\ \A a, b \in 1..Len(rows) : a # b => f[a] # f[b]
       /\ \A a, b \in 1..Len(rows) :
            a < b => rows[f[a]].timestamp.n <= rows[f[b]].timestamp.n
       /\ \A a \in 1..Len(rows) : lines[a + 1] = Join(CsvRow(rows[f[a]], preview), ",")

C3_ExportStep ==
  \A i \in Slots :
    (req[i].pc = "select" /\ req[i].kind \in {"csv", "csvDownload"}
       /\ Succeeded(req'[i]))
    => /\ req'[i].body.tag = "csv"
       /\ C3_Export(req'[i].body.lines, store, IF req[i].kind = "csv" THEN 200 ELSE 500)

\* C3: the body GET /csv and GET /csv/download send is the header line
\* followed by exactly one line per row the table holds when it is read,
\* no row missing or repeated, with the timestamps ascending; the header
\* line alone when the table is empty.
C3_ExportIsHeaderThenSortedRows == [][C3_ExportStep]_vars

\* C3's case: a download of two rows stored in descending timestamp order.
C3_Witness ==
  /\ Len(store) = 2
  /\ store[1].timestamp.n > store[2].timestamp.n
  /\ \E i \in Slots :
       /\ req[i].kind = "csvDownload"
       /\ Succeeded(req[i])
       /\ Len(req[i].body.lines) = 3

\* Each category supplied on a stored row, with the number of rows carrying it.
C4_Categories ==
  LET supplied == {store[k].category.s : k \in {m \in 1..Len(store) :
                     store[m].category.t = "string" /\ store[m].category.s # ""}}
  IN [c \in supplied |->
        Cardinality({k \in 1..Len(store) : store[k].category = Str(c)})]

\* C4: a GET /stats that read the table as it now stands reports the number
\* of rows, the number of distinct session ids, the number of distinct
\* student names other than 'Anonymous', and for each category supplied on
\* a row the number of rows that carry it.
C4_StatsAggregate ==
  \A i \in Slots :
    LET r == req[i]
    IN (r.kind = "stats" /\ Succeeded(r) /\ r.body.n = Len(store))
       => /\ r.body.sessions = Cardinality({store[k].session_id : k \in 1..Len(store)})
          /\ r.body.students =
               Cardinality({store[k].student_name : k \in 1..Len(store)}
                             \ {Str("Anonymous")})
          /\ r.body.categories = C4_Categories

\* A CSV parser (RFC 4180): fields are separated by commas and records by
\* line breaks; a field in double quotes may hold all of these, with a double
\* quote written twice.
IsSpecial(c) == c \in {",", "\"", "\n", "\r"}

\* The position of the first comma, quote or line break of doc, Len(doc) + 1
\* when it has none.
FirstSpecial(doc) ==
  IF \E k \in 1..Len(doc) : IsSpecial(CharAt(doc, k))
  THEN CHOOSE k \in 1..Len(doc) :
         /\ IsSpecial(CharAt(doc, k))
         /\ \A j \in 1..(k - 1) : ~IsSpecial(CharAt(doc, j))
  ELSE Len(doc) + 1

RECURSIVE CsvScan(_, _, _, _, _)
CsvScan(doc, mode, field, record, records) ==
  IF doc = ""
  THEN IF mode = "recordStart" THEN records
       ELSE Append(records, Append(record, field))
  ELSE IF FirstSpecial(doc) > 1
  THEN CsvScan(SubSeq(doc, FirstSpecial(doc), Len(doc)),
               IF mode = "quoted" THEN "quoted" ELSE "unquoted",
               field \o SubSeq(doc, 1, FirstSpecial(doc) - 1), record, records)
  ELSE LET c == CharAt(doc, 1)
           rest == SubSeq(doc, 2, Len(doc))
           crlf == c = "\r" /\ rest # "" /\ CharAt(rest, 1) = "\n"
           afterBreak == IF crlf THEN SubSeq(rest, 2, Len(rest)) ELSE rest
       IN IF mode = "quoted"
          THEN IF c = "\"" THEN CsvScan(rest, "quoteSeen", field, record, records)
               ELSE CsvScan(rest, "quoted", field \o c, record, records)
          ELSE IF c = "\"" /\ mode = "quoteSeen"
          THEN CsvScan(rest, "quoted", field \o "\"", record, records)
          ELSE IF c = "\"" /\ mode \in {"recordStart", "fieldStart"}
          THEN CsvScan(rest, "quoted", field, record, records)
          ELSE IF c = ","
          THEN CsvScan(rest, "fieldStart", "", Append(record, field), records)
          ELSE IF c = "\n" \/ c = "\r"
          THEN CsvScan(afterBreak, "recordStart", "", <<>>,
                       Append(records, Append(record, field)))
          ELSE CsvScan(rest, "unquoted", field \o c, record, records)

CsvParse(doc) == CsvScan(doc, "recordStart", "", <<>>, <<>>)

QuoteCount(str) == Cardinality({k \in 1..Len(str) : CharAt(str, k) = "\""})

HasSpecial(str) == \E k \in 1..Len(str) : IsSpecial(CharAt(str, k))

\* C5: escapeCSV gives '' for null and undefined; wraps a value whose string
\* form holds a comma, a double quote, a line feed or a carriage return in
\* double quotes with every double quote inside doubled; returns every other
\* string form as it is; and a CSV parser reads the original string back
\* from the result placed between two other fields.
C5_EscapeContract ==
  escOut # NotCalled =>
    IF Absent(escIn) THEN escOut = ""
    ELSE LET str == StringOf(escIn)
         IN /\ HasSpecial(str) =>
                 /\ Len(escOut) = Len(str) + QuoteCount(str) + 2
                 /\ CharAt(escOut, 1) = "\""
                 /\ CharAt(escOut, Len(escOut)) = "\""
                 /\ QuoteCount(escOut) = 2 * QuoteCount(str) + 2
            /\ ~HasSpecial(str) => escOut = str
            /\ CsvParse("p," \o escOut \o ",q\n") = <<<<"p", str, "q">>>>

\* C5's case: a string of a quote, a comma and a carriage return was escaped.
C5_Witness ==
  /\ escIn = Str("\",\r")
  /\ escOut = "\"\"\",\r\""

\* The parameters C6 describes: a default only for a field that is missing.
C6_Supplied(p) ==
  LET orElse(a, b) == IF Absent(a) THEN b ELSE a
  IN [timestamp |-> p.timestamp,
      session_id |-> p.sessionId,
      student_name |-> orElse(Opt(p.student, "name"), Str("Anonymous")),
      class_name |-> orElse(Opt(p.student, "class"), Str("Not specified")),
      question_number |-> orElse(p.questionNumber, Null),
      interaction_type |-> p.type,
      question |-> orElse(p.question, Str("")),
      ai_response |-> orElse(p.response, Str("")),
      category |-> orElse(p.category, Str("")),
      risk_level |-> orElse(Opt(p.analysis, "riskLevel"), Str("")),
      flags |-> orElse(Opt(p.analysis, "flags"), Arr(<<>>)),
      word_count |-> orElse(Opt(p.analysis, "wordCount"), Null),
      analysis_details |->
        Str(IF p.analysis.defined THEN Stringify(p.analysis, PayloadKeys) ELSE "{}")]

\* C6: the stored row holds every optional field as the payload supplies it,
\* and a default only where the payload leaves the field out: 'Anonymous',
\* 'Not specified', NULL for questionNumber and wordCount, no flags, {}.
C6_StoredAsSupplied ==
  \A i \in Slots :
    LET r == req[i]
    IN (IsLog(r) /\ Succeeded(r) /\ r.body.tag = "logged")
       => store[r.body.n] = NewRow(C6_Supplied(r.payload), r.body.n)

\* C7: two GET /csv responses that read the same table content have the same
\* body, and so have two GET /stats responses.
C7_RepeatedReadsAgree ==
  \A i, j \in Slots :
    /\ (req[i].kind = "csv" /\ req[j].kind = "csv" /\ Succeeded(req[i])
          /\ Succeeded(req[j])
          /\ Len(req[i].body.lines) = Len(req[j].body.lines))
       => req[i].body = req[j].body
    /\ (req[i].kind = "stats" /\ req[j].kind = "stats" /\ Succeeded(req[i])
          /\ Succeeded(req[j]) /\ req[i].body.n = Len(store)
          /\ req[j].body.n = Len(store))
       => req[i].body = req[j].body

\* C8: a request whose connect or query failed gets exactly one response,
\* 500 with an error body; no request gets more than one response; and a
\* POST /log is acknowledged only with its row in the table.
C8_FailureIsOne500 ==
  \A i \in Slots :
    LET r == req[i]
    IN /\ r.sent <= 1
       /\ Answered(r) => r.sent = 1
       /\ r.err # "none" =>
            /\ Answered(r)
            /\ r.status = 500
            /\ r.body.tag = "error"
            /\ r.body.text # ""
       /\ r.status = 200 => r.err = "none"
       /\ r.body.tag = "logged" =>
            /\ r.status = 200
            /\ r.body.n \in 1..Len(store)
            /\ store[r.body.n].id = r.body.n
            /\ store[r.body.n].session_id = r.payload.sessionId

\* C8's case: a POST /log whose insert failed and a GET /stats whose
\* connect failed have both been answered.
C8_Witness ==
  \E i, j \in Slots :
    /\ IsLog(req[i]) /\ req[i].err = "storage" /\ req[i].status = 500
    /\ req[j].kind = "stats" /\ req[j].err = "connect" /\ req[j].status = 500

\* C9: a request that has been answered holds no client, and with every
\* request answered no client is checked out of the pool.
C9_ClientsReleased ==
  /\ \A i \in Slots : Answered(req[i]) => ~req[i].holding
  /\ (\A i \in Slots : req[i].pc \in {"idle", "done"}) => checkedOut = 0

RECURSIVE Sum(_, _)
Sum(f, keys) ==
  IF keys = {} THEN 0
  ELSE LET k == CHOOSE x \in keys : TRUE IN f[k] + Sum(f, keys \ {k})

\* C10: the numbers of a GET /stats response are those of one state the
\* table has been in; sessions and the sum of the category counts are at
\* most totalInteractions.
C10_StatsOfOneState ==
  \A i \in Slots :
    LET r == req[i]
    IN (r.kind = "stats" /\ Succeeded(r))
       => /\ \E k \in 0..Len(store) :
               /\ r.body.n = k
               /\ r.body.sessions = CountSessions(Prefix(k))
               /\ r.body.students = CountStudents(Prefix(k))
               /\ r.body.categories = AssignAll(EmptyMap, GroupByCategory(Prefix(k)))
          /\ r.body.sessions <= r.body.n
          /\ Sum(r.body.categories, DOMAIN r.body.categories) <= r.body.n

====
